---- MODULE Spec2Model ----
(***************************************************************************)
(* A model of src/app.js, the Express gateway of file2do-backend.          *)
(*                                                                         *)
(* Every request stores its upload under uploads/ (multer), runs one       *)
(* handler, and answers once an external tool or a library call has        *)
(* finished.  Node runs each synchronous stretch of a handler or callback  *)
(* to completion, so one action is one such stretch: from the entry of the *)
(* handler to its first await / exec, and from the resumption to the end.  *)
(*                                                                         *)
(* A synchronous stretch is written as a chain of steps over a record      *)
(*   w = [up, comp, dirs, rq, thrown]                                      *)
(* (the two directories, the request, and whether a JavaScript exception   *)
(* is in flight).  A step does nothing once w.thrown is set, which is how  *)
(* the statements after a throw are skipped; a catch clause is             *)
(*   IF w.thrown THEN <handler>([w EXCEPT !.thrown = FALSE]) ELSE w.       *)
(***************************************************************************)
EXTENDS Integers, Sequences, FiniteSets, TLC

(* ------------------------------ bounds -------------------------------- *)

\* Date.now() takes the values 0..MaxClock.
MaxClock == 1
\* upload.array('files') stores at most MaxFiles files of one request.
MaxFiles == 2
\* A source document has 1..MaxPages pages.
MaxPages == 2
\* An operation list has at most MaxOps operations.
MaxOps == 2
\* The largest compression level a client sends to /upload.
MaxLevel == 100

\* The requests in flight: two, so that any two of them may overlap.
Reqs == {"r1", "r2"}

(* ------------------------------ state --------------------------------- *)

VARIABLES
    now,         \* the value Date.now() returns
    uploads,     \* uploads/   : file name -> the request whose upload it holds
    compressed,  \* compressed/: file name -> [mtime, by]
    dirs,        \* the scratch directories under compressed/
    req,         \* per request: its inputs, its position, what it answered
    alive        \* FALSE once an uncaught exception has ended the process

vars == <<now, uploads, compressed, dirs, req, alive>>

(* ------------------------------ names --------------------------------- *)

\* A file name is <<prefix, stamp, extension>>: prefix + stamp + extension.
NoName == <<"", -1, "">>
\* A name built from the original file name carries no time stamp.
NoStamp == -2

Name(pre, t, ext) == <<pre, t, ext>>

(* ------------------------------ inputs -------------------------------- *)

Endpoints ==
    {"upload", "compress-pdf", "convert-to-pdf", "image-to-pdf",
     "make-searchable", "merge-pdf", "pdf-to-word", "protect-pdf",
     "organize-pdf", "pdf-to-jpg", "compresss-pdf", "rotate-pdf",
     "compress-video"}

\* The declared MIME type that goes with an extension.
MimeOf(ext) ==
    CASE ext = ".png"  -> "image/png"
      [] ext = ".jpg"  -> "image/jpeg"
      [] ext = ".pdf"  -> "application/pdf"
      [] ext = ".docx" -> "application/vnd.openxmlformats"
      [] OTHER         -> "video/mp4"

\* The extensions a client sends to an endpoint in this model.
ExtsFor(ep) ==
    CASE ep \in {"upload", "image-to-pdf"}            -> {".png", ".pdf"}
      [] ep = "convert-to-pdf"                        -> {".docx"}
      [] ep = "compresss-pdf"                         -> {".docx", ".pdf"}
      [] ep = "compress-video"                        -> {".mp4"}
      [] OTHER                                        -> {".pdf"}

\* The original file names (without extension); only the two endpoints that
\* name their output after it are given more than one.
BasesFor(ep) ==
    IF ep = "convert-to-pdf" THEN {"report", "notes"} ELSE {"report"}

\* A page of a source document is its /Rotate entry; a document is its
\* pages and whether PDFDocument.load can parse it.
SrcRotations == {0, 90}

RECURSIVE SeqsUpTo(_, _)
SeqsUpTo(S, n) ==
    IF n = 0 THEN {<<>>}
    ELSE LET shorter == SeqsUpTo(S, n - 1)
         IN  shorter \cup {Append(s, x) : s \in {t \in shorter : Len(t) = n - 1}, x \in S}

\* No document: nothing was uploaded, or what was uploaded does not parse.
NoDoc == [ok |-> FALSE, pages |-> <<>>]

Docs(maxPages) ==
    {NoDoc} \cup
    {[ok |-> TRUE, pages |-> p] : p \in (SeqsUpTo(SrcRotations, maxPages) \ {<<>>})}

\* What req.body.actions can hold: nothing, text that is not JSON, JSON that
\* is not a list, or a list of operations.
NoActions == [kind |-> "missing", ops |-> <<>>]

\* An organize operation is 'blank' or a page index; a rotate operation is
\* {originalIndex, rotation}.  Both are held in one record shape.
Op(b, i, a) == [blank |-> b, index |-> i, rotation |-> a]

Angles == {-90, 0, 45, 360, 450}

OrganizeOps(maxPages) ==
    {Op(TRUE, 0, 0)} \cup {Op(FALSE, i, 0) : i \in -1 .. maxPages}

RotateOps(maxPages, angles) ==
    {Op(FALSE, i, a) : i \in -1 .. maxPages, a \in angles}

ActionsOver(ops, maxOps) ==
    {NoActions, [kind |-> "notjson", ops |-> <<>>], [kind |-> "notlist", ops |-> <<>>]}
    \cup {[kind |-> "list", ops |-> s] : s \in SeqsUpTo(ops, maxOps)}

\* What req.body.compression can hold: nothing, text that is no number, or
\* the decimal text of an integer.
NoLevel == [kind |-> "missing", n |-> 0]
Level(c) == [kind |-> "int", n |-> c]
Levels(maxLevel) ==
    {NoLevel, [kind |-> "text", n |-> 0]} \cup {Level(c) : c \in -1 .. maxLevel}

(* ------------------------------ requests ------------------------------ *)

Idle ==
    [ep |-> "none", pc |-> "idle", files |-> <<>>, ext |-> "", base |-> "",
     compression |-> 0, password |-> FALSE, actions |-> NoActions, doc |-> NoDoc,
     out |-> NoName, dir |-> NoName, pages |-> <<>>,
     sends |-> 0, resent |-> FALSE, status |-> 0, tool |-> FALSE,
     started |-> FALSE, outcome |-> "none", level |-> NoLevel, quality |-> 0]

\* A directory with no file in it.
EmptyDir == [x \in {} |-> 0]

Init ==
    /\ now = 0
    /\ uploads = EmptyDir
    /\ compressed = EmptyDir
    /\ dirs = {}
    /\ req = [r \in Reqs |-> Idle]
    /\ alive = TRUE

(* ------------------------- steps of a stretch ------------------------- *)

Put(f, k, v) == [x \in DOMAIN f \cup {k} |-> IF x = k THEN v ELSE f[x]]
Drop(f, k) == [x \in DOMAIN f \ {k} |-> f[x]]

World(r) ==
    [up |-> uploads, comp |-> compressed, dirs |-> dirs, rq |-> req[r],
     thrown |-> FALSE]

Throw(w) == [w EXCEPT !.thrown = TRUE]

\* req.file.path, which throws a TypeError when no file was uploaded.
FilePath(w) == IF Len(w.rq.files) = 0 THEN NoName ELSE w.rq.files[1]
RequireFile(w) ==
    IF w.thrown THEN w
    ELSE IF Len(w.rq.files) = 0 THEN Throw(w) ELSE w

\* fs.unlinkSync(p) on uploads/: ENOENT when the file is gone.
unlinkSync(w, p) ==
    IF w.thrown THEN w
    ELSE IF p \in DOMAIN w.up THEN [w EXCEPT !.up = Drop(@, p)] ELSE Throw(w)

\* if (fs.existsSync(p)) fs.unlinkSync(p)
unlinkIfExists(w, p) ==
    IF w.thrown THEN w
    ELSE IF p \in DOMAIN w.up THEN [w EXCEPT !.up = Drop(@, p)] ELSE w

\* fs.readFileSync(p) and fs.statSync(p) on uploads/.
readFileSync(w, p) ==
    IF w.thrown THEN w
    ELSE IF p \in DOMAIN w.up THEN w ELSE Throw(w)

\* fs.statSync(p) on compressed/.
statSync(w, p) ==
    IF w.thrown THEN w
    ELSE IF p \in DOMAIN w.comp THEN w ELSE Throw(w)

\* fs.writeFileSync(p, bytes) on compressed/, and a tool writing its output.
writeFileSync(w, p, r) ==
    IF w.thrown THEN w
    ELSE [w EXCEPT !.comp = Put(@, p, [mtime |-> now, by |-> r])]

\* if (!fs.existsSync(d)) fs.mkdirSync(d)
mkdirSync(w, d) ==
    IF w.thrown THEN w ELSE [w EXCEPT !.dirs = @ \cup {d}]

\* fs.rmSync(d, { recursive: true, force: true })
rmSync(w, d) ==
    IF w.thrown THEN w ELSE [w EXCEPT !.dirs = @ \ {d}]

\* res.status(code).send(..) / res.json(..): the first one answers the
\* request; a later one throws ERR_HTTP_HEADERS_SENT.
ResendThrows(w) == [w EXCEPT !.rq.resent = TRUE, !.thrown = TRUE]
send(w, code) ==
    IF w.thrown THEN w
    ELSE IF w.rq.sends > 0 THEN ResendThrows(w)
    ELSE [w EXCEPT !.rq.sends = 1, !.rq.status = code]

Set(w, field, v) == IF w.thrown THEN w ELSE [w EXCEPT !.rq = [@ EXCEPT ![field] = v]]

(* --------------------- how a stretch of code ends --------------------- *)

\* The variables after a stretch that ended normally at position pc.
Commit(r, w, pc) ==
    /\ uploads' = w.up
    /\ compressed' = w.comp
    /\ dirs' = w.dirs
    /\ req' = [req EXCEPT ![r] = [w.rq EXCEPT !.pc = pc]]
    /\ alive' = alive

\* An exception nobody catches ends the process: no request in flight is
\* answered any more.
Crash(r, w) ==
    /\ uploads' = w.up
    /\ compressed' = w.comp
    /\ dirs' = w.dirs
    /\ req' = [req EXCEPT ![r] = [w.rq EXCEPT !.pc = "crashed"]]
    /\ alive' = FALSE

\* The router's default error handler: 500 unless the answer is already out.
RouterError(w) ==
    IF w.rq.sends > 0 THEN [w EXCEPT !.thrown = FALSE]
    ELSE [w EXCEPT !.thrown = FALSE, !.rq.sends = 1, !.rq.status = 500]

\* A route handler that is a plain function: the router catches its throw.
EndSync(r, w, pc) ==
    IF w.thrown THEN Commit(r, RouterError(w), "done") ELSE Commit(r, w, pc)

\* A route handler that is an async function: its throw is a rejected
\* promise.  A router that awaits its handlers turns it into a 500; one that
\* does not never sees it, and the unhandled rejection ends the process.
\* Which router the build installs is not fixed by the repository.
EndAsync(r, w, pc) ==
    IF ~w.thrown THEN Commit(r, w, pc)
    ELSE \E caught \in BOOLEAN :
            IF caught THEN Commit(r, RouterError(w), "done") ELSE Crash(r, w)

\* A callback of exec, libre.convert or glob, or one resumed after an await
\* inside it: nothing catches its throw.
EndCallback(r, w, pc) ==
    IF w.thrown THEN Crash(r, w) ELSE Commit(r, w, pc)

(* ------------------------------ clock --------------------------------- *)

Tick ==
    /\ alive
    /\ now < MaxClock
    /\ now' = now + 1
    /\ UNCHANGED <<uploads, compressed, dirs, req, alive>>

(* ------------------------------ multer -------------------------------- *)

\* filename: Date.now() + path.extname(file.originalname); the file is
\* written to uploads/ whether or not one of that name is there.
uniqueName(ext) == Name("", now, ext)
StoreFile(w, r) ==
    [w EXCEPT !.up = Put(@, uniqueName(w.rq.ext), r),
              !.rq.files = Append(@, uniqueName(w.rq.ext))]

\* A request arrives, with or without a first file.  The second request is
\* the one that arrives second.
Arrive(r, eps) ==
    /\ alive
    /\ req[r].pc = "idle"
    /\ r = "r2" => req["r1"].pc # "idle"
    /\ \E ep \in eps, withFile \in BOOLEAN :
       \E ext \in (IF withFile THEN ExtsFor(ep) ELSE {".pdf"}) :
       \E base \in (IF withFile THEN BasesFor(ep) ELSE {"report"}) :
          LET w0 == [World(r) EXCEPT
                        !.rq = [Idle EXCEPT !.ep = ep, !.ext = ext, !.base = base]]
              w1 == IF withFile THEN StoreFile(w0, r) ELSE w0
          IN  Commit(r, w1, IF ep = "merge-pdf" /\ withFile THEN "receiving" ELSE "stored")
    /\ UNCHANGED now

\* upload.array('files'): one more file of the same request is stored.
StoreMore(r) ==
    /\ alive
    /\ req[r].pc = "receiving"
    /\ Len(req[r].files) < MaxFiles
    /\ Commit(r, StoreFile(World(r), r), "receiving")
    /\ UNCHANGED now

\* The last part of the multipart body has been read: the handler runs.
Received(r) ==
    /\ alive
    /\ req[r].pc = "receiving"
    /\ Commit(r, World(r), "stored")
    /\ UNCHANGED now

\* The handler of endpoint ep is at position pc for request r.
At(r, ep, pc) == alive /\ req[r].ep = ep /\ req[r].pc = pc

\* An external tool or a library call is started on the request's input.
Start(w) ==
    IF w.thrown THEN w
    ELSE [w EXCEPT !.rq.tool = TRUE, !.rq.started = FilePath(w) \in DOMAIN w.up]

\* What a tool reports when it ends: it fails when its input was not there.
Outcomes(r, choices) == IF req[r].started THEN choices ELSE {"fail"}

\* The tool's own effect: on "ok" its output file is in compressed/.
Ran(r, o, p) ==
    LET w == Set(World(r), "outcome", o)
    IN  IF o = "ok" THEN writeFileSync(w, p, r) ELSE w

(* -------------------------- POST /upload ------------------------------ *)

allowedTypes == {"image/jpeg", "image/png"}

\* parseInt(text): NaN for no text and for text that is no number.
NaN == [nan |-> TRUE, n |-> 0]
parseInt(level) == IF level.kind = "int" THEN [nan |-> FALSE, n |-> level.n] ELSE NaN

\* x || d on a number: d when x is NaN or 0.
OrElse(x, d) == IF x.nan \/ x.n = 0 THEN d ELSE x.n

\* Math.max(10, 100 - compression)
quality(compression) == IF 100 - compression > 10 THEN 100 - compression ELSE 10

\* The two constants of an accepted upload: compression and quality.
Encoder(w, level) ==
    Set(Set(Set(w, "level", level),
            "compression", OrElse(parseInt(level), 60)),
        "quality", quality(OrElse(parseInt(level), 60)))

\* Upload as it would be if the rejection left the upload where it is.
UploadKeepingRejected(r, levels) ==
    /\ At(r, "upload", "stored")
    /\ \E level \in levels :
        LET w0 == RequireFile(World(r))
            inputPath == FilePath(w0)
            w1 == Set(w0, "out", Name("compressed_", inputPath[2], inputPath[3]))
            rejected == ~w1.thrown /\ MimeOf(w1.rq.ext) \notin allowedTypes
            w2 == IF rejected THEN send(w1, 400) ELSE Start(Encoder(w1, level))
        IN  EndAsync(r, w2, IF rejected THEN "done" ELSE "tool")
    /\ UNCHANGED now

Upload(r, levels) ==
    /\ At(r, "upload", "stored")
    /\ \E level \in levels :
        LET w0 == RequireFile(World(r))
            inputPath == FilePath(w0)
            w1 == Set(w0, "out", Name("compressed_", inputPath[2], inputPath[3]))
            rejected == ~w1.thrown /\ MimeOf(w1.rq.ext) \notin allowedTypes
            w2 == IF rejected THEN send(unlinkSync(w1, inputPath), 400)
                  ELSE Start(Encoder(w1, level))
        IN  EndAsync(r, w2, IF rejected THEN "done" ELSE "tool")
    /\ UNCHANGED now

\* sharp(..).toFile(outputPath) has settled.
UploadSharp(r) ==
    /\ At(r, "upload", "tool")
    /\ \E o \in Outcomes(r, {"ok", "fail"}) :
        LET w0 == Ran(r, o, req[r].out)
            inputPath == FilePath(w0)
            w1 == IF o = "ok" THEN w0 ELSE Throw(w0)
            w2 == unlinkSync(send(statSync(w1, w1.rq.out), 200), inputPath)
            w3 == IF w2.thrown THEN send([w2 EXCEPT !.thrown = FALSE], 500) ELSE w2
        IN  EndAsync(r, w3, "done")
    /\ UNCHANGED now

(* ------------------------ POST /compress-pdf -------------------------- *)

CompressPdf(r) ==
    /\ At(r, "compress-pdf", "stored")
    /\ \E compression \in {60, 90} :
        LET w0 == RequireFile(World(r))
            w1 == Set(readFileSync(w0, FilePath(w0)), "compression", compression)
            outputDir == Name("temp_", now, "/")
            w2 == IF compression >= 90
                  THEN mkdirSync(Set(Set(w1, "dir", outputDir),
                                     "out", Name("extreme_", now, ".pdf")), outputDir)
                  ELSE Set(w1, "out", Name("compressed_", now, ".pdf"))
        IN  EndAsync(r, Start(w2), "tool")
    /\ UNCHANGED now

\* pdftoppm has ended; the images are put together into one PDF.
CompressPdfExtreme(r) ==
    /\ At(r, "compress-pdf", "tool")
    /\ req[r].compression >= 90
    /\ \E o \in (IF req[r].dir \in dirs THEN Outcomes(r, {"ok", "fail", "nooutput"})
                 ELSE {"fail"}) :
        LET w0 == Set(World(r), "outcome", o)
            inputPath == FilePath(w0)
            w1 == IF o = "ok" THEN w0 ELSE Throw(w0)
            w2 == send(rmSync(unlinkSync(writeFileSync(w1, w1.rq.out, r), inputPath),
                              w1.rq.dir), 200)
            w3 == IF w2.thrown
                  THEN send(rmSync(unlinkIfExists([w2 EXCEPT !.thrown = FALSE], inputPath),
                                   w2.rq.dir), 500)
                  ELSE w2
        IN  EndAsync(r, w3, "done")
    /\ UNCHANGED now

\* Ghostscript has ended.
CompressPdfGs(r) ==
    /\ At(r, "compress-pdf", "tool")
    /\ req[r].compression < 90
    /\ \E o \in Outcomes(r, {"ok", "fail", "nooutput"}) :
        LET w0 == Ran(r, o, req[r].out)
            w1 == unlinkSync(w0, FilePath(w0))
            w2 == IF o = "fail" THEN send(w1, 500)
                  ELSE send(statSync(w1, w1.rq.out), 200)
        IN  EndCallback(r, w2, "done")
    /\ UNCHANGED now

(* ----------------------- POST /convert-to-pdf ------------------------- *)

ConvertToPdf(r) ==
    /\ At(r, "convert-to-pdf", "stored")
    /\ LET w0 == RequireFile(World(r))
           w1 == Set(w0, "out", Name(w0.rq.base, NoStamp, ".pdf"))
           w2 == readFileSync(w1, FilePath(w1))
       IN  EndSync(r, Start(w2), "tool")
    /\ UNCHANGED now

\* libre.convert calls back.
ConvertToPdfLibre(r) ==
    /\ At(r, "convert-to-pdf", "tool")
    /\ \E o \in {"ok", "fail"} :
        LET w0 == Set(World(r), "outcome", o)
            inputPath == FilePath(w0)
            w1 == IF o = "fail" THEN send(unlinkSync(w0, inputPath), 500)
                  ELSE unlinkSync(
                         send(statSync(writeFileSync(w0, w0.rq.out, r), w0.rq.out), 200),
                         inputPath)
        IN  EndCallback(r, w1, "done")
    /\ UNCHANGED now

(* ------------------------ POST /image-to-pdf -------------------------- *)

allowed == {".jpg", ".jpeg", ".png"}

ImageToPdf(r) ==
    /\ At(r, "image-to-pdf", "stored")
    /\ LET w0 == RequireFile(World(r))
           inputPath == FilePath(w0)
           w1 == Set(w0, "out", Name("converted_", now, ".pdf"))
           rejected == ~w1.thrown /\ w1.rq.ext \notin allowed
           w2 == IF rejected THEN send(unlinkSync(w1, inputPath), 400)
                 ELSE Start(readFileSync(w1, inputPath))
           w3 == IF ~rejected /\ ~w0.thrown /\ w2.thrown
                 THEN send([w2 EXCEPT !.thrown = FALSE], 500)
                 ELSE w2
       IN  EndAsync(r, w3, IF rejected \/ w2.thrown THEN "done" ELSE "tool")
    /\ UNCHANGED now

\* The image has been embedded (or could not be) and the document saved.
ImageToPdfSave(r) ==
    /\ At(r, "image-to-pdf", "tool")
    /\ \E o \in {"ok", "fail"} :
        LET w0 == Set(World(r), "outcome", o)
            w1 == IF o = "ok" THEN w0 ELSE Throw(w0)
            w2 == unlinkSync(send(writeFileSync(w1, w1.rq.out, r), 200), FilePath(w1))
            w3 == IF w2.thrown THEN send([w2 EXCEPT !.thrown = FALSE], 500) ELSE w2
        IN  EndAsync(r, w3, "done")
    /\ UNCHANGED now

(* ----------------------- POST /make-searchable ------------------------ *)

MakeSearchable(r) ==
    /\ At(r, "make-searchable", "stored")
    /\ LET w0 == RequireFile(World(r))
           w1 == Set(w0, "out", Name("searchable_", now, ".pdf"))
       IN  EndSync(r, Start(w1), "tool")
    /\ UNCHANGED now

\* ocrmypdf has ended.
MakeSearchableExec(r) ==
    /\ At(r, "make-searchable", "tool")
    /\ \E o \in Outcomes(r, {"ok", "fail", "nooutput"}) :
        LET w0 == Ran(r, o, req[r].out)
            inputPath == FilePath(w0)
            w1 == IF o = "fail" THEN send(unlinkSync(w0, inputPath), 500)
                  ELSE unlinkSync(send(statSync(w0, w0.rq.out), 200), inputPath)
        IN  EndCallback(r, w1, "done")
    /\ UNCHANGED now

(* -------------------------- POST /merge-pdf --------------------------- *)

MergePdf(r) ==
    /\ At(r, "merge-pdf", "stored")
    /\ LET w0 == World(r)
           tooFew == Len(w0.rq.files) < 2
           w1 == IF tooFew THEN send(w0, 400) ELSE Start(w0)
       IN  EndAsync(r, w1, IF tooFew THEN "done" ELSE "tool")
    /\ UNCHANGED now

\* for (const file of files): read it, load it (the bad-th file does not
\* parse), copy its pages, unlink it.
RECURSIVE MergeLoop(_, _, _)
MergeLoop(w, i, bad) ==
    IF i > Len(w.rq.files) \/ w.thrown THEN w
    ELSE LET file == w.rq.files[i]
             w1 == readFileSync(w, file)
             w2 == IF i = bad THEN Throw(w1) ELSE w1
         IN  MergeLoop(unlinkSync(w2, file), i + 1, bad)

MergePdfSave(r) ==
    /\ At(r, "merge-pdf", "tool")
    /\ \E bad \in 0 .. Len(req[r].files) :
        LET w0 == Set(World(r), "outcome", IF bad = 0 THEN "ok" ELSE "fail")
            w1 == MergeLoop(w0, 1, bad)
            w2 == Set(w1, "out", Name("merged_", now, ".pdf"))
            w3 == send(writeFileSync(w2, w2.rq.out, r), 200)
            w4 == IF w3.thrown THEN send([w3 EXCEPT !.thrown = FALSE], 500) ELSE w3
        IN  EndAsync(r, w4, "done")
    /\ UNCHANGED now

(* ------------------------- POST /pdf-to-word -------------------------- *)

PdfToWord(r) ==
    /\ At(r, "pdf-to-word", "stored")
    /\ EndAsync(r, Start(RequireFile(World(r))), "tool")
    /\ UNCHANGED now

\* soffice has ended; it names its output after its input.
PdfToWordExec(r) ==
    /\ At(r, "pdf-to-word", "tool")
    /\ \E o \in Outcomes(r, {"ok", "fail", "nooutput"}) :
        LET inputPath == req[r].files[1]
            w0 == Ran(r, o, Name("", inputPath[2], ".docx"))
            w1 == unlinkSync(w0, inputPath)
            w2 == IF o = "fail" THEN send(w1, 500) ELSE w1
        IN  EndCallback(r, w2, IF o = "fail" THEN "done" ELSE "glob")
    /\ UNCHANGED now

\* glob calls back with the .docx files of compressed/; the most recently
\* modified one is answered.
PdfToWordGlob(r) ==
    /\ At(r, "pdf-to-word", "glob")
    /\ LET files == {f \in DOMAIN compressed : f[3] = ".docx"}
           latest == {f \in files : \A g \in files : compressed[g].mtime <= compressed[f].mtime}
           w0 == World(r)
       IN  IF files = {} THEN EndCallback(r, send(w0, 500), "done")
           ELSE \E latestFile \in latest :
                  EndCallback(r, send(Set(w0, "out", latestFile), 200), "done")
    /\ UNCHANGED now

(* ------------------------- POST /protect-pdf -------------------------- *)

ProtectPdf(r) ==
    /\ At(r, "protect-pdf", "stored")
    /\ \E password \in BOOLEAN :
        LET w0 == RequireFile(World(r))
            w1 == Set(Set(w0, "password", password), "out", Name("protected_", now, ".pdf"))
            w2 == IF ~password THEN send(unlinkSync(w1, FilePath(w1)), 400)
                  ELSE Start(w1)
        IN  EndSync(r, w2, IF ~password THEN "done" ELSE "tool")
    /\ UNCHANGED now

\* qpdf has ended.
ProtectPdfExec(r) ==
    /\ At(r, "protect-pdf", "tool")
    /\ \E o \in Outcomes(r, {"ok", "fail", "nooutput"}) :
        LET w0 == Ran(r, o, req[r].out)
            w1 == unlinkSync(w0, FilePath(w0))
            w2 == IF o = "fail" THEN send(w1, 500)
                  ELSE send(statSync(w1, w1.rq.out), 200)
        IN  EndCallback(r, w2, "done")
    /\ UNCHANGED now

(* ----------------------- the page assembly loops ---------------------- *)

\* An output page: a blank one, or a copy of source page src; rot is its
\* /Rotate entry.
Page(src, rot) == [blank |-> FALSE, src |-> src, rot |-> rot]
BlankPage == [blank |-> TRUE, src |-> 0, rot |-> 0]

getPageCount(doc) == Len(doc.pages)

\* srcPages[index] of copyPages: a page for 0 <= index < getPageCount(),
\* undefined (and then a TypeError) for any other index.
HasPage(doc, index) == index \in 0 .. getPageCount(doc) - 1

\* What a loop has built: the pages added so far, and whether it threw.
Built(pages) == [thrown |-> FALSE, pages |-> pages]
Thrown(pages) == [thrown |-> TRUE, pages |-> pages]

\* organizeLoop as it would be if a page that cannot be copied were passed
\* over instead of thrown on.
RECURSIVE organizeLoopSkipping(_, _, _, _)
organizeLoopSkipping(doc, actions, i, newPdf) ==
    IF i > Len(actions) THEN Built(newPdf)
    ELSE LET action == actions[i]
         IN  IF action.blank
             THEN organizeLoopSkipping(doc, actions, i + 1, Append(newPdf, BlankPage))
             ELSE IF HasPage(doc, action.index)
             THEN organizeLoopSkipping(doc, actions, i + 1,
                               Append(newPdf, Page(action.index, doc.pages[action.index + 1])))
             ELSE organizeLoopSkipping(doc, actions, i + 1, newPdf)

\* for (let action of actions) of /organize-pdf.
RECURSIVE organizeLoop(_, _, _, _)
organizeLoop(doc, actions, i, newPdf) ==
    IF i > Len(actions) THEN Built(newPdf)
    ELSE LET action == actions[i]
         IN  IF action.blank
             THEN organizeLoop(doc, actions, i + 1, Append(newPdf, BlankPage))
             ELSE IF HasPage(doc, action.index)
             THEN organizeLoop(doc, actions, i + 1,
                               Append(newPdf, Page(action.index, doc.pages[action.index + 1])))
             ELSE Thrown(newPdf)

\* JavaScript's a % n, whose sign is that of a.
JsRem(a, n) == IF a >= 0 THEN a % n ELSE -((-a) % n)

\* const angle = (rotation % 360 + 360) % 360
normalize(rotation) == JsRem(JsRem(rotation, 360) + 360, 360)

\* rotateLoop as it would be if each copied page were put in front of the
\* pages added before it.
RECURSIVE rotateLoopPrepending(_, _, _, _)
rotateLoopPrepending(doc, actions, i, newPdf) ==
    IF i > Len(actions) THEN Built(newPdf)
    ELSE LET originalIndex == actions[i].index
             angle == normalize(actions[i].rotation)
         IN  IF originalIndex >= getPageCount(doc)
             THEN rotateLoopPrepending(doc, actions, i + 1, newPdf)
             ELSE IF ~HasPage(doc, originalIndex) THEN Thrown(newPdf)
             ELSE IF angle # 0 /\ angle % 90 # 0 THEN Thrown(newPdf)
             ELSE rotateLoopPrepending(doc, actions, i + 1,
                             <<Page(originalIndex,
                                    IF angle # 0 THEN angle
                                    ELSE doc.pages[originalIndex + 1])>> \o newPdf)

\* for (const { originalIndex, rotation } of actions) of /rotate-pdf;
\* setRotation accepts multiples of 90 only.
RECURSIVE rotateLoop(_, _, _, _)
rotateLoop(doc, actions, i, newPdf) ==
    IF i > Len(actions) THEN Built(newPdf)
    ELSE LET originalIndex == actions[i].index
             angle == normalize(actions[i].rotation)
         IN  IF originalIndex >= getPageCount(doc)
             THEN rotateLoop(doc, actions, i + 1, newPdf)
             ELSE IF ~HasPage(doc, originalIndex) THEN Thrown(newPdf)
             ELSE IF angle # 0 /\ angle % 90 # 0 THEN Thrown(newPdf)
             ELSE rotateLoop(doc, actions, i + 1,
                             Append(newPdf,
                                    Page(originalIndex,
                                         IF angle # 0 THEN angle
                                         ELSE doc.pages[originalIndex + 1])))

\* newPdf.save(): a document without pages is saved with one default page.
save(newPdf) == IF Len(newPdf) = 0 THEN <<BlankPage>> ELSE newPdf

\* PDFDocument.load, then the loop over the parsed actions.
Assemble(ep, doc, actions) ==
    IF ~doc.ok \/ actions.kind # "list" THEN Thrown(<<>>)
    ELSE IF ep = "organize-pdf" THEN organizeLoop(doc, actions.ops, 1, <<>>)
    ELSE rotateLoop(doc, actions.ops, 1, <<>>)

(* ------------------------ POST /organize-pdf -------------------------- *)

\* The handler up to its first await: the output name, the check for a
\* file and actions, JSON.parse, reading the input.
Parsed(r, prefix, a, d) ==
    LET w0 == Set(Set(Set(World(r), "actions", a), "doc", d),
                  "out", Name(prefix, now, ".pdf"))
        inputPath == FilePath(w0)
        w1 == IF a.kind = "notjson" THEN Throw(w0) ELSE w0
        w2 == Start(readFileSync(w1, inputPath))
    IN  IF Len(w0.rq.files) = 0 \/ a.kind = "missing" THEN send(w0, 400)
        ELSE IF w2.thrown
        THEN send(unlinkIfExists([w2 EXCEPT !.thrown = FALSE], inputPath), 500)
        ELSE w2

\* The rest of the handler: the loop, save, write, unlink, answer; and the
\* catch clause.
Saved(r) ==
    LET w0 == World(r)
        inputPath == FilePath(w0)
        built == Assemble(w0.rq.ep, w0.rq.doc, w0.rq.actions)
        w1 == IF built.thrown THEN Throw(Set(w0, "outcome", "fail"))
              ELSE Set(Set(w0, "outcome", "ok"), "pages", save(built.pages))
        w2 == send(unlinkSync(writeFileSync(w1, w1.rq.out, r), inputPath), 200)
    IN  IF w2.thrown
        THEN send(unlinkIfExists([w2 EXCEPT !.thrown = FALSE], inputPath), 500)
        ELSE w2

OrganizePdf(r, inputs, docs) ==
    /\ At(r, "organize-pdf", "stored")
    /\ \E a \in inputs :
       \E d \in (IF Len(req[r].files) = 0 \/ a.kind \in {"missing", "notjson"}
                 THEN {NoDoc} ELSE docs) :
          LET w == Parsed(r, "organized_", a, d)
          IN  EndAsync(r, w, IF w.rq.sends > 0 THEN "done" ELSE "tool")
    /\ UNCHANGED now

OrganizePdfSave(r) ==
    /\ At(r, "organize-pdf", "tool")
    /\ EndAsync(r, Saved(r), "done")
    /\ UNCHANGED now

(* ------------------------- POST /rotate-pdf --------------------------- *)

RotatePdf(r, inputs, docs) ==
    /\ At(r, "rotate-pdf", "stored")
    /\ \E a \in inputs :
       \E d \in (IF Len(req[r].files) = 0 \/ a.kind \in {"missing", "notjson"}
                 THEN {NoDoc} ELSE docs) :
          LET w == Parsed(r, "rotated_", a, d)
          IN  EndAsync(r, w, IF w.rq.sends > 0 THEN "done" ELSE "tool")
    /\ UNCHANGED now

RotatePdfSave(r) ==
    /\ At(r, "rotate-pdf", "tool")
    /\ EndAsync(r, Saved(r), "done")
    /\ UNCHANGED now

(* ------------------------- POST /pdf-to-jpg --------------------------- *)

PdfToJpg(r) ==
    /\ At(r, "pdf-to-jpg", "stored")
    /\ LET w0 == RequireFile(World(r))
           outputDir == Name("jpgs_", now, "/")
           w1 == Set(Set(w0, "dir", outputDir), "out", Name("converted_", now, ".zip"))
       IN  EndSync(r, Start(mkdirSync(w1, outputDir)), "tool")
    /\ UNCHANGED now

\* pdftoppm has ended; on success the archive is piped into the zip file.
PdfToJpgExec(r) ==
    /\ At(r, "pdf-to-jpg", "tool")
    /\ \E o \in Outcomes(r, {"ok", "fail"}) :
        LET w0 == Set(World(r), "outcome", o)
            w1 == unlinkSync(w0, FilePath(w0))
            w2 == IF o = "fail" THEN send(w1, 500) ELSE w1
        IN  EndCallback(r, w2, IF o = "fail" THEN "done" ELSE "zip")
    /\ UNCHANGED now

\* archive.on('error')
ZipError(r) ==
    /\ At(r, "pdf-to-jpg", "zip")
    /\ EndCallback(r, send(World(r), 500), "zip-error")
    /\ UNCHANGED now

\* output.on('close'): the stream closes, after an archive error too.
ZipClose(r) ==
    /\ alive
    /\ req[r].ep = "pdf-to-jpg"
    /\ req[r].pc \in {"zip", "zip-error"}
    /\ LET w0 == writeFileSync(World(r), req[r].out, r)
       IN  EndCallback(r, send(statSync(w0, w0.rq.out), 200), "done")
    /\ UNCHANGED now

(* ------------------------ POST /compresss-pdf ------------------------- *)

office == {".doc", ".docx", ".ppt", ".pptx", ".xls", ".xlsx"}

CompresssPdf(r) ==
    /\ At(r, "compresss-pdf", "stored")
    /\ LET w0 == RequireFile(World(r))
           w1 == IF w0.rq.ext \in office
                 THEN readFileSync(Set(w0, "out", Name(w0.rq.base, NoStamp, ".pdf")),
                                   FilePath(w0))
                 ELSE Set(w0, "out", Name("compressed_", now, ".pdf"))
       IN  EndSync(r, Start(w1), "tool")
    /\ UNCHANGED now

\* libre.convert calls back.
CompresssPdfLibre(r) ==
    /\ At(r, "compresss-pdf", "tool")
    /\ req[r].ext \in office
    /\ \E o \in {"ok", "fail"} :
        LET w0 == Set(World(r), "outcome", o)
            w1 == unlinkSync(w0, FilePath(w0))
            w2 == IF o = "fail" THEN send(w1, 500)
                  ELSE send(statSync(writeFileSync(w1, w1.rq.out, r), w1.rq.out), 200)
        IN  EndCallback(r, w2, "done")
    /\ UNCHANGED now

\* Ghostscript has ended.
CompresssPdfGs(r) ==
    /\ At(r, "compresss-pdf", "tool")
    /\ req[r].ext \notin office
    /\ \E o \in Outcomes(r, {"ok", "fail", "nooutput"}) :
        LET w0 == Ran(r, o, req[r].out)
            w1 == unlinkSync(w0, FilePath(w0))
            w2 == IF o = "fail" THEN send(w1, 500)
                  ELSE send(statSync(w1, w1.rq.out), 200)
        IN  EndCallback(r, w2, "done")
    /\ UNCHANGED now

(* ------------------------ POST /compress-video ------------------------ *)

CompressVideo(r) ==
    /\ At(r, "compress-video", "stored")
    /\ LET w0 == RequireFile(World(r))
           w1 == Set(w0, "out", Name("compressed_", now, ".mp4"))
       IN  EndAsync(r, Start(w1), "tool")
    /\ UNCHANGED now

\* ffmpeg has ended.
CompressVideoExec(r) ==
    /\ At(r, "compress-video", "tool")
    /\ \E o \in Outcomes(r, {"ok", "fail", "nooutput"}) :
        LET w0 == Ran(r, o, req[r].out)
            w1 == IF o = "fail" THEN send(w0, 500)
                  ELSE send(statSync(unlinkSync(w0, FilePath(w0)), w0.rq.out), 200)
        IN  EndCallback(r, w1, "done")
    /\ UNCHANGED now

(* --------------------------- specifications --------------------------- *)

\* Two requests to any of the endpoints, overlapping in any way.  The page
\* operations are lists of at most one operation over a one-page document.
SmallOrganize == ActionsOver(OrganizeOps(1), 1)
SmallRotate == ActionsOver(RotateOps(1, {0}), 1)
SmallDocs == {[ok |-> TRUE, pages |-> <<0>>]}
SmallLevels == {NoLevel, Level(0)}

Next ==
    \/ Tick
    \/ \E r \in Reqs : Arrive(r, Endpoints)
    \/ \E r \in Reqs : StoreMore(r)
    \/ \E r \in Reqs : Received(r)
    \/ \E r \in Reqs : Upload(r, SmallLevels)
    \/ \E r \in Reqs : UploadSharp(r)
    \/ \E r \in Reqs : CompressPdf(r)
    \/ \E r \in Reqs : CompressPdfExtreme(r)
    \/ \E r \in Reqs : CompressPdfGs(r)
    \/ \E r \in Reqs : ConvertToPdf(r)
    \/ \E r \in Reqs : ConvertToPdfLibre(r)
    \/ \E r \in Reqs : ImageToPdf(r)
    \/ \E r \in Reqs : ImageToPdfSave(r)
    \/ \E r \in Reqs : MakeSearchable(r)
    \/ \E r \in Reqs : MakeSearchableExec(r)
    \/ \E r \in Reqs : MergePdf(r)
    \/ \E r \in Reqs : MergePdfSave(r)
    \/ \E r \in Reqs : PdfToWord(r)
    \/ \E r \in Reqs : PdfToWordExec(r)
    \/ \E r \in Reqs : PdfToWordGlob(r)
    \/ \E r \in Reqs : ProtectPdf(r)
    \/ \E r \in Reqs : ProtectPdfExec(r)
    \/ \E r \in Reqs : OrganizePdf(r, SmallOrganize, SmallDocs)
    \/ \E r \in Reqs : OrganizePdfSave(r)
    \/ \E r \in Reqs : RotatePdf(r, SmallRotate, SmallDocs)
    \/ \E r \in Reqs : RotatePdfSave(r)
    \/ \E r \in Reqs : PdfToJpg(r)
    \/ \E r \in Reqs : PdfToJpgExec(r)
    \/ \E r \in Reqs : ZipError(r)
    \/ \E r \in Reqs : ZipClose(r)
    \/ \E r \in Reqs : CompresssPdf(r)
    \/ \E r \in Reqs : CompresssPdfLibre(r)
    \/ \E r \in Reqs : CompresssPdfGs(r)
    \/ \E r \in Reqs : CompressVideo(r)
    \/ \E r \in Reqs : CompressVideoExec(r)

Spec == Init /\ [][Next]_vars

\* One request to the reorganize or the rotate flow, over every document of
\* 1..MaxPages pages and every list of at most MaxOps operations.
NextAssemble ==
    \/ Arrive("r1", {"organize-pdf", "rotate-pdf"})
    \/ OrganizePdf("r1", ActionsOver(OrganizeOps(MaxPages), MaxOps), Docs(MaxPages))
    \/ OrganizePdfSave("r1")
    \/ RotatePdf("r1", ActionsOver(RotateOps(MaxPages, Angles), MaxOps), Docs(MaxPages))
    \/ RotatePdfSave("r1")

SpecAssemble == Init /\ [][NextAssemble]_vars

\* One request to /upload, with every compression level.
NextUpload ==
    \/ Arrive("r1", {"upload"})
    \/ Upload("r1", Levels(MaxLevel))
    \/ UploadSharp("r1")

SpecUpload == Init /\ [][NextUpload]_vars

(* ------------------------------ claims -------------------------------- *)

\* The handler of request r has run to its end, or the process has ended
\* in it.
Done(r) == req[r].pc = "done"
Finished(r) == req[r].pc \in {"done", "crashed"}
InFlight(r) == req[r].pc \notin {"idle", "done", "crashed"}

Range(s) == {s[i] : i \in 1 .. Len(s)}

\* The upload of request r that is still in uploads/.
Leftover(r) == {f \in Range(req[r].files) : f \in DOMAIN uploads /\ uploads[f] = r}

\* C1: once a request has finished, on any exit path, none of its temp input
\* files is still in the uploads directory.
C1_TempInputDeleted == \A r \in Reqs : Finished(r) => Leftover(r) = {}

\* The names request r reads, writes or deletes: its temp inputs, its
\* output file, its scratch directory.
NamesOf(r) == (Range(req[r].files) \cup {req[r].out, req[r].dir}) \ {NoName}

\* C2: the temp input, output and scratch names of two requests handled at
\* the same time are all different.
C2_NamesUniquePerRequest ==
    \A r1, r2 \in Reqs :
        r1 # r2 /\ InFlight(r1) /\ InFlight(r2) => NamesOf(r1) \cap NamesOf(r2) = {}

\* A request of one of the two page flows whose handler answered 200.
Assembled(r) ==
    /\ Done(r)
    /\ req[r].ep \in {"organize-pdf", "rotate-pdf"}
    /\ req[r].status = 200

\* An operation succeeds when it is a blank page or names a page of the
\* source; what it puts into the output is <<blank, source index>>.
Succeeds(doc, op) == op.blank \/ (0 <= op.index /\ op.index < Len(doc.pages))
SucceededOps(r) == SelectSeq(req[r].actions.ops, LAMBDA op : Succeeds(req[r].doc, op))
Wanted(r) == [i \in 1 .. Len(SucceededOps(r)) |->
                <<SucceededOps(r)[i].blank, SucceededOps(r)[i].index>>]
Output(r) == [i \in 1 .. Len(req[r].pages) |->
                <<req[r].pages[i].blank, req[r].pages[i].src>>]

AllInRange(r) ==
    /\ req[r].ep \in {"organize-pdf", "rotate-pdf"}
    /\ req[r].doc.ok
    /\ req[r].actions.kind = "list"
    /\ \A op \in Range(req[r].actions.ops) :
          Succeeds(req[r].doc, op) /\ op.rotation % 90 = 0

C4_RotationIsNormalizedAngle ==
    \A r \in Reqs :
        Assembled(r) /\ req[r].ep = "rotate-pdf" /\ Len(SucceededOps(r)) = Len(req[r].pages) =>
            \A i \in 1 .. Len(req[r].pages) :
                req[r].pages[i].rot = ((SucceededOps(r)[i].rotation % 360) + 360) % 360

\* A request whose operation list reached the loop with an index outside
\* 0 .. pageCount-1 in it.
OutOfRange(r) ==
    /\ Done(r)
    /\ req[r].ep \in {"organize-pdf", "rotate-pdf"}
    /\ req[r].outcome # "none"
    /\ req[r].doc.ok
    /\ req[r].actions.kind = "list"
    /\ \E op \in Range(req[r].actions.ops) : ~Succeeds(req[r].doc, op)

\* C5: an out-of-range index is handled by one policy in both flows: of two
\* requests that do not share a file, either both fail or both are answered
\* with the operation skipped.
C5_OnePolicy ==
    \A r1, r2 \in Reqs :
        OutOfRange(r1) /\ OutOfRange(r2) /\ NamesOf(r1) \cap NamesOf(r2) = {} =>
            (req[r1].status = 200) = (req[r2].status = 200)

Disallowed(r) ==
    /\ req[r].files # <<>>
    /\ \/ req[r].ep = "upload" /\ MimeOf(req[r].ext) \notin {"image/jpeg", "image/png"}
       \/ req[r].ep = "image-to-pdf" /\ req[r].ext \notin {".jpg", ".jpeg", ".png"}

\* A required part of the request is missing or malformed.
FailsValidation(r) ==
    \/ Disallowed(r)
    \/ req[r].ep = "merge-pdf" /\ Len(req[r].files) < 2
    \/ req[r].ep # "merge-pdf" /\ req[r].files = <<>>
    \/ req[r].ep = "protect-pdf" /\ ~req[r].password
    \/ req[r].ep \in {"organize-pdf", "rotate-pdf"} /\ req[r].actions.kind # "list"

\* C7: a request that fails validation is answered 400; one that fails in an
\* external tool or in assembly is answered 500.
C7_StatusByFailure ==
    \A r \in Reqs :
        /\ Done(r) /\ FailsValidation(r) => req[r].status = 400
        /\ Done(r) /\ ~FailsValidation(r) /\ req[r].outcome \in {"fail", "nooutput"} =>
              req[r].status = 500

\* C8: an upload of a type the endpoint does not allow never has a tool or a
\* library conversion started on it, and is gone from uploads/ when the
\* request is answered.
C8_RejectedBeforeAnyTool ==
    [][\A r \in Reqs :
          Disallowed(r)' =>
              /\ ~req'[r].tool
              /\ req[r].sends = 0 /\ req'[r].sends = 1 =>
                    /\ req'[r].status \in {400, 500}
                    /\ Range(req'[r].files) \cap DOMAIN uploads' = {}]_vars

\* C8's case: a request rejected for its type.
C8_Witness ==
    \E r \in Reqs : Done(r) /\ Disallowed(r) /\ req[r].status = 400

\* C9: a request that made a scratch directory leaves none behind.
C9_NoScratchDirLeft ==
    \A r \in Reqs : Finished(r) /\ req[r].dir # NoName => req[r].dir \notin dirs

\* C10: a request whose handler has run is answered exactly once.
C10_ExactlyOneResponse ==
    \A r \in Reqs : Finished(r) => req[r].sends = 1 /\ ~req[r].resent

\* The .docx soffice writes for the upload of request r.
OwnDocx(r) == Name("", req[r].files[1][2], ".docx")

\* C11: the file a successful PDF-to-Word request is answered with is the
\* one converted from its own input, never one produced for another request.
C11_OwnDocxReturned ==
    \A r \in Reqs :
        Done(r) /\ req[r].ep = "pdf-to-word" /\ req[r].status = 200 =>
            req[r].out = OwnDocx(r)

\* C12: for an integer compression level c in 0 .. 100 the encoder quality
\* is max(10, 100 - c): it lies in 10 .. 100 and no smaller level gives a
\* lower quality.
C12_QualityFromLevel ==
    \A r \in Reqs :
        /\ req[r].ep = "upload"
        /\ req[r].tool
        /\ req[r].level.kind = "int"
        /\ req[r].level.n \in 0 .. 100
        => /\ req[r].quality = quality(req[r].level.n)
           /\ req[r].quality \in 10 .. 100
           /\ \A c \in 0 .. req[r].level.n :
                 quality(OrElse(parseInt(Level(c)), 60)) >= req[r].quality

====
